---- MODULE Spec2Model ----
(***************************************************************************)
(* Model of subtitle-downloader.py: the SubtitleDownloader widget, its     *)
(* callbacks (choose_video, on_language_changed, filter_subtitles,         *)
(* on_search, on_selection_changed, on_download) and the fingerprint       *)
(* function compute_hash.                                                  *)
(*                                                                         *)
(* 64-bit quantities are kept as four 16-bit limbs, least significant      *)
(* first, so that the wraparound of line 217 is computed and not assumed.  *)
(* A file's content is a length, a fill byte and a finite map of offsets   *)
(* that hold another byte.                                                 *)
(***************************************************************************)
EXTENDS Integers, Sequences, FiniteSets, TLC

VARIABLES
  running,          \* the process has not been ended by an unhandled exception
  unhandled,        \* the exception that ended it
  token,            \* self.token
  video_path,       \* self.video_path
  file_button,      \* text of self.file_button
  config,           \* self.config: the language option held in memory
  config_file,      \* CONFIG_FILE on disk
  lang_combo,       \* self.lang_combo.currentData()
  subtitle_list,    \* the items of self.subtitle_list
  selected,         \* index of the selected item, 0 when none
  download_button,  \* self.download_button.isEnabled()
  filter_edit,      \* text and visibility of self.filter_edit
  status_label,     \* text of self.status_label
  written,          \* the files written next to the videos
  calls,            \* the remote calls made by the last callback, in order
  last,             \* the last callback and how it ended
  searchNo,         \* number of on_search invocations so far
  hfile, hres, hprev, hprevres

gvars ==
  <<running, unhandled, token, video_path, file_button, config, config_file,
    lang_combo, subtitle_list, selected, download_button, filter_edit,
    status_label, written, calls, last, searchNo>>

hvars == <<hfile, hres, hprev, hprevres>>

vars == <<gvars, hvars>>

----------------------------------------------------------------------------
(* Python values *)

None == "None"

\* bool(v) of a string or None
Truthy(v) == v # None /\ v # ""

----------------------------------------------------------------------------
(* File contents *)

\* at most this many offsets of a file hold a byte other than its fill byte
MaxOverrides == 1

Bytes == {0, 1, 255}

Fills == {0, 255}

FileSizes == {0, 100, 131071, 131072, 200001}

\* offsets at the edges of the two read windows and of the region between
ProbeOffsets(size) ==
  {o \in {0, 65535, 65536, size - 65537, size - 65536, size - 1} :
     o >= 0 /\ o < size}

Overrides(size, fill) ==
  UNION {[D -> Bytes \ {fill}] :
           D \in {S \in SUBSET ProbeOffsets(size) : Cardinality(S) <= MaxOverrides}}

HashFiles ==
  UNION {{[size |-> s, fill |-> fl, ov |-> o] : o \in Overrides(s, fl)} :
           s \in FileSizes, fl \in Fills}

ByteAt(f, off) == IF off \in DOMAIN f.ov THEN f.ov[off] ELSE f.fill

----------------------------------------------------------------------------
(* compute_hash *)

buf_size == 65536

Word == [1..4 -> 0..65535]

\* an integer below 2^31 as a 64-bit word
U64(n) == <<n % 65536, (n \div 65536) % 65536, 0, 0>>

\* f.read(count) at position pos: the bytes pos .. pos+count-1 that exist
FileRead(f, pos, count) ==
  [pos |-> pos, len |-> IF pos + count <= f.size THEN count
                        ELSE IF pos < f.size THEN f.size - pos ELSE 0]

\* byte i (from 0) of start + end
DataAt(f, start, end, i) ==
  IF i < start.len THEN ByteAt(f, start.pos + i)
  ELSE ByteAt(f, end.pos + (i - start.len))

\* the unpacking of the low four bytes only
unpackQ_low(f, start, end, i) ==
  <<DataAt(f, start, end, i) + 256 * DataAt(f, start, end, i + 1),
    DataAt(f, start, end, i + 2) + 256 * DataAt(f, start, end, i + 3), 0, 0>>

\* struct.unpack('<Q', data[i:i+8])[0]
unpackQ(f, start, end, i) ==
  <<DataAt(f, start, end, i) + 256 * DataAt(f, start, end, i + 1),
    DataAt(f, start, end, i + 2) + 256 * DataAt(f, start, end, i + 3),
    DataAt(f, start, end, i + 4) + 256 * DataAt(f, start, end, i + 5),
    DataAt(f, start, end, i + 6) + 256 * DataAt(f, start, end, i + 7)>>

\* the addition without the carries between the limbs
Add64_nocarry(a, b) ==
  <<(a[1] + b[1]) % 65536, (a[2] + b[2]) % 65536,
    (a[3] + b[3]) % 65536, (a[4] + b[4]) % 65536>>

\* (a + b) & 0xFFFFFFFFFFFFFFFF
Add64(a, b) ==
  LET s1 == a[1] + b[1]
      s2 == a[2] + b[2] + (s1 \div 65536)
      s3 == a[3] + b[3] + (s2 \div 65536)
      s4 == a[4] + b[4] + (s3 \div 65536)
  IN <<s1 % 65536, s2 % 65536, s3 % 65536, s4 % 65536>>

\* the loop of lines 212-217 over the blocks 0 .. nblocks-1, in order: the
\* blocks lo .. hi are added to h one after the other, the range being halved
\* only to keep the evaluation shallow
HashLoop(f, start, end, h0, nblocks) ==
  LET Fold[h \in Word, lo \in Nat, hi \in Nat] ==
        IF lo = hi THEN Add64(h, unpackQ(f, start, end, 8 * lo))
        ELSE Fold[Fold[h, lo, (lo + hi) \div 2], (lo + hi) \div 2 + 1, hi]
  IN IF nblocks = 0 THEN h0 ELSE Fold[h0, 0, nblocks - 1]

HexDigits ==
  <<"0", "1", "2", "3", "4", "5", "6", "7", "8", "9", "a", "b", "c", "d", "e", "f">>

Hex4(n) ==
  HexDigits[(n \div 4096) + 1] \o HexDigits[((n \div 256) % 16) + 1]
    \o HexDigits[((n \div 16) % 16) + 1] \o HexDigits[(n % 16) + 1]

\* f"{hash_value:016x}"
Format016x(h) == Hex4(h[4]) \o Hex4(h[3]) \o Hex4(h[2]) \o Hex4(h[1])

\* the size test with <= for <
compute_hash_le(f) ==
  LET size == f.size
  IN IF size <= buf_size * 2
     THEN [hash |-> None, size |-> size, reads |-> <<>>]
     ELSE LET start == FileRead(f, 0, buf_size)
              end == FileRead(f, size - buf_size, buf_size)
              h == HashLoop(f, start, end, U64(size), (start.len + end.len) \div 8)
          IN [hash |-> Format016x(h), size |-> size, reads |-> <<start, end>>]

\* the seek one byte short of size - buf_size
compute_hash_seek(f) ==
  LET size == f.size
  IN IF size < buf_size * 2
     THEN [hash |-> None, size |-> size, reads |-> <<>>]
     ELSE LET start == FileRead(f, 0, buf_size)
              end == FileRead(f, size - buf_size - 1, buf_size)
              h == HashLoop(f, start, end, U64(size), (start.len + end.len) \div 8)
          IN [hash |-> Format016x(h), size |-> size, reads |-> <<start, end>>]

\* the returned pair and, in order, the reads made of the file's content
compute_hash(f) ==
  LET size == f.size
  IN IF size < buf_size * 2
     THEN [hash |-> None, size |-> size, reads |-> <<>>]
     ELSE LET start == FileRead(f, 0, buf_size)
              end == FileRead(f, size - buf_size, buf_size)
              h == HashLoop(f, start, end, U64(size), (start.len + end.len) \div 8)
          IN [hash |-> Format016x(h), size |-> size, reads |-> <<start, end>>]

\* compute_hash of every file of HashFiles, evaluated once
HashOf == [f \in HashFiles |-> compute_hash(f)]

\* no result of compute_hash yet
NotRun == [hash |-> "NotRun", size |-> 0, reads |-> <<>>]

NoFile == [size |-> 0, fill |-> 0, ov |-> <<>>]

----------------------------------------------------------------------------
(* Paths, the videos on disk and the configuration file *)

\* a path is <<directory, base name without extension, extension>>, the last
\* two as sequences of characters; NoPath is None
NoPath == <<>>

EmptyPath == <<"", <<>>, <<>>>>

PSmall == <<"/v", <<"T", ".", "S", "0", "1", "E", "0", "2">>, <<".", "m", "k", "v">>>>

PEdge == <<"/v", <<"m", "_", "v">>, <<".", "m", "p", "4">>>>

PBig == <<"/w", <<"c">>, <<".", "a", "v", "i">>>>

PGone == <<"/v", <<"g">>, <<".", "m", "k", "v">>>>

\* the video files that exist, with their content
Disk ==
  (PSmall :> [size |-> 131071, fill |-> 0, ov |-> <<>>])
    @@ (PEdge :> [size |-> 131072, fill |-> 0, ov |-> <<>>])
    @@ (PBig :> [size |-> 200000, fill |-> 255, ov |-> <<>>])

\* compute_hash of every video on disk, evaluated once
VideoHash == [p \in DOMAIN Disk |-> compute_hash(Disk[p])]

\* what sys.argv[1] may be; NoPath when there is no argument
Arguments == {NoPath, PSmall, PGone}

\* what QFileDialog.getOpenFileName may return; EmptyPath when cancelled
DialogResults == DOMAIN Disk \cup {EmptyPath}

PathTruthy(p) == p # NoPath /\ p # EmptyPath

dirname(p) == p[1]

basename(p) == p[2] \o p[3]

\* os.path.splitext(basename(p))[0]
splitext0(p) == p[2]

isfile(p) == p \in DOMAIN Disk

\* the text "Choose a video" of the file button
ChooseAVideo ==
  <<"C", "h", "o", "o", "s", "e", " ", "a", " ", "v", "i", "d", "e", "o">>

LANGUAGES ==
  <<"eng", "cze", "dan", "dut", "fin", "fre", "ell", "baq", "pob", "por",
    "rum", "slo", "spa", "swe", "ukr", "hun", "scc">>

\* the entries of the combo box the user picks in the model
LangChoices == {"eng", "pob", "spa"}

\* CONFIG_FILE before the program starts: no file, a file without the
\* settings section, a settings section without the language option, or the
\* language option with a code; "ger" is a code that LANGUAGES does not hold.
\* Line 134 (fallback=) and line 136 (idx >= 0) provide for the last three.
ConfigFiles == {"absent", "nosection", "nokey", "pob", "spa", "ger"}

\* config.get('settings', 'language', fallback='pob')
config_get(c) == IF c \in {"nosection", "nokey"} THEN "pob" ELSE c

\* lang_combo.findData(code): index from 0, -1 when there is none
findData(code) ==
  IF \E i \in 1..Len(LANGUAGES) : LANGUAGES[i] = code
  THEN (CHOOSE i \in 1..Len(LANGUAGES) : LANGUAGES[i] = code) - 1
  ELSE -1

----------------------------------------------------------------------------
(* The remote service *)

Tokens == {"t1", "t2"}

\* resp.get('token') of LogIn, or an exception of the transport
LogInResponses == {None, ""} \cup Tokens \cup {"raise"}

Sub1 == [SubFileName |-> <<"E", "n", ".", "s">>, IDSubtitleFile |-> "101"]

Sub2 == [SubFileName |-> <<"p", "t">>, IDSubtitleFile |-> "102"]

\* a response of the service: an exception of the transport, no 'data' member,
\* 'data' False, or 'data' a list
Response(kind, list) == [kind |-> kind, data |-> list]

NoList == {Response("raise", <<>>), Response("absent", <<>>), Response("false", <<>>)}

SearchResponses ==
  NoList \cup {Response("list", l) : l \in {<<>>, <<Sub1>>, <<Sub1, Sub2>>}}

\* a payload is base64 text of a blob, or text that is not base64; a blob is
\* a gzip stream of a text, a gzip stream cut short, or no gzip stream
Payloads ==
  {<<"b64", <<"gz", "1 hello">>>>, <<"b64", <<"gzcut", "1 he">>>>,
   <<"b64", <<"raw", "junk">>>>, <<"text", "%">>}

DownloadResponses ==
  NoList \cup {Response("list", <<>>)}
    \cup {Response("list", <<[data |-> p]>>) : p \in Payloads}

\* base64.b64decode(p)
b64decode(p) ==
  IF p[1] = "b64" THEN [ok |-> TRUE, blob |-> p[2]]
  ELSE [ok |-> FALSE, blob |-> <<>>]

\* reading the gzip stream blob to its end: the text copied and the
\* exception that ended the copy, if any
gunzip(blob) ==
  IF blob[1] = "gz" THEN [out |-> blob[2], exc |-> "none"]
  ELSE IF blob[1] = "gzcut" THEN [out |-> blob[2], exc |-> "EOFError"]
  ELSE [out |-> "", exc |-> "BadGzipFile"]

\* resp.get('data') or []
DataOrEmpty(resp) == IF resp.kind = "list" THEN resp.data ELSE <<>>

----------------------------------------------------------------------------
(* Text of the filter field *)

UpperCase ==
  <<"A", "B", "C", "D", "E", "F", "G", "H", "I", "J", "K", "L", "M",
    "N", "O", "P", "Q", "R", "S", "T", "U", "V", "W", "X", "Y", "Z">>

LowerCase ==
  <<"a", "b", "c", "d", "e", "f", "g", "h", "i", "j", "k", "l", "m",
    "n", "o", "p", "q", "r", "s", "t", "u", "v", "w", "x", "y", "z">>

lower(t) ==
  [i \in 1..Len(t) |->
     IF \E k \in 1..26 : UpperCase[k] = t[i]
     THEN LowerCase[CHOOSE k \in 1..26 : UpperCase[k] = t[i]]
     ELSE t[i]]

IsSpace(c) == c \in {" ", "\t", "\n", "\r"}

strip(t) ==
  LET keep == {i \in 1..Len(t) : ~IsSpace(t[i])}
  IN IF keep = {} THEN <<>>
     ELSE SubSeq(t, CHOOSE i \in keep : \A k \in keep : i <= k,
                    CHOOSE i \in keep : \A k \in keep : k <= i)

\* a in b, for strings
Contains(a, b) ==
  \E i \in 0..(Len(b) - Len(a)) : SubSeq(b, i + 1, i + Len(a)) = a

\* what the user may type into the filter field
FilterInputs == {<<>>, <<"E", "N">>, <<" ", "p", " ">>}

\* the list after filter_subtitles(text)
Filtered(list, text) ==
  LET t == strip(lower(text))
  IN [i \in 1..Len(list) |->
        [list[i] EXCEPT !.hidden = ~Contains(t, lower(list[i].text))]]

----------------------------------------------------------------------------
(* The text query of on_search, lines 245-260 *)

IsDigit(c) == c \in {"0", "1", "2", "3", "4", "5", "6", "7", "8", "9"}

\* [._\- ] of the pattern
IsSeparator(c) == c \in {".", "_", "-", " "}

\* [._\-] of the substitution
IsPunct(c) == c \in {".", "_", "-"}

\* (?i)s\d{2}e\d{2} matches the six characters from index e
EpisodeAt(name, e) ==
  /\ e >= 1
  /\ e + 5 <= Len(name)
  /\ name[e] \in {"s", "S"}
  /\ IsDigit(name[e + 1]) /\ IsDigit(name[e + 2])
  /\ name[e + 3] \in {"e", "E"}
  /\ IsDigit(name[e + 4]) /\ IsDigit(name[e + 5])

\* the pairs <<t, e>> with the characters t .. e-1 separators, at least one,
\* an episode at e, and at least one character before t
Matches(name) ==
  {m \in (2..Len(name)) \X (3..Len(name)) :
     /\ m[1] < m[2]
     /\ \A i \in m[1]..(m[2] - 1) : IsSeparator(name[i])
     /\ EpisodeAt(name, m[2])}

\* pattern.search(name): the match starts at the first character and the
\* lazy series group ends as early as can be
Search(name) ==
  IF Matches(name) = {} THEN <<>>
  ELSE LET m == CHOOSE x \in Matches(name) : \A y \in Matches(name) : x[1] <= y[1]
       IN <<SubSeq(name, 1, m[1] - 1), SubSeq(name, m[2], m[2] + 5)>>

RECURSIVE SubPunct(_, _)
\* re.sub(r'[._\-]+', ' ', t), from index i
SubPunct(t, i) ==
  IF i > Len(t) THEN <<>>
  ELSE IF ~IsPunct(t[i]) THEN <<t[i]>> \o SubPunct(t, i + 1)
  ELSE IF i > 1 /\ IsPunct(t[i - 1]) THEN SubPunct(t, i + 1)
  ELSE <<" ">> \o SubPunct(t, i + 1)

RECURSIVE JoinSplit(_, _)
\* ' '.join(t.split()), from index i
JoinSplit(t, i) ==
  IF i > Len(t) THEN <<>>
  ELSE IF ~IsSpace(t[i]) THEN <<t[i]>> \o JoinSplit(t, i + 1)
  ELSE IF \A k \in 1..(i - 1) : IsSpace(t[k]) THEN JoinSplit(t, i + 1)
  ELSE IF \A k \in i..Len(t) : IsSpace(t[k]) THEN <<>>
  ELSE IF IsSpace(t[i - 1]) THEN JoinSplit(t, i + 1)
  ELSE <<" ">> \o JoinSplit(t, i + 1)

\* the query for the video at path p
Query(p) ==
  LET name == splitext0(p)
      match == Search(name)
      query == IF match # <<>>
               THEN SubPunct(match[1], 1) \o <<" ">> \o lower(match[2])
               ELSE SubPunct(name, 1)
  IN JoinSplit(query, 1)

----------------------------------------------------------------------------
(* The widget *)

\* on_search is taken at most this many times
MaxSearches == 3

\* the state left by an exception that no callback catches: PyQt6 ends the
\* process when an exception leaves a slot, and no later callback runs
Raise(exc) == running' = FALSE /\ unhandled' = exc

NoRaise == UNCHANGED <<running, unhandled>>

Call(op, tok, arg) == [op |-> op, token |-> tok, arg |-> arg]

\* _load_config and _build_ui, for the argument and the configuration file
\* the program is started with
Init ==
  /\ running = TRUE
  /\ unhandled = "none"
  /\ token = None
  /\ video_path \in Arguments
  /\ file_button =
       IF PathTruthy(video_path) /\ isfile(video_path)
       THEN basename(video_path) ELSE ChooseAVideo
  /\ \E c \in ConfigFiles :
       /\ config = IF c = "absent" THEN "pob" ELSE c
       /\ config_file = IF c = "absent" THEN "pob" ELSE c
  /\ lang_combo =
       IF findData(config_get(config)) >= 0
       THEN LANGUAGES[findData(config_get(config)) + 1] ELSE LANGUAGES[1]
  /\ subtitle_list = <<>>
  /\ selected = 0
  /\ download_button = FALSE
  /\ filter_edit = [text |-> <<>>, visible |-> FALSE]
  /\ status_label = ""
  /\ written = <<>>
  /\ calls = <<>>
  /\ last = [cb |-> "init", end |-> "done"]
  /\ searchNo = 0
  /\ hfile = NoFile
  /\ hres = NotRun
  /\ hprev = NoFile
  /\ hprevres = NotRun

choose_video ==
  /\ running
  /\ UNCHANGED hvars
  /\ \E file \in DialogResults :
       IF PathTruthy(file)
       THEN /\ video_path' = file
            /\ file_button' = basename(file)
       ELSE UNCHANGED <<video_path, file_button>>
  /\ calls' = <<>>
  /\ last' = [cb |-> "choose_video", end |-> "done"]
  /\ UNCHANGED <<running, unhandled, token, config, config_file, lang_combo,
                 subtitle_list, selected, download_button, filter_edit,
                 status_label, written, searchNo>>

\* the user picks another entry of the combo box; _save_language
on_language_changed ==
  /\ running
  /\ UNCHANGED hvars
  /\ \E code \in LangChoices :
       /\ code # lang_combo
       /\ lang_combo' = code
       /\ IF config = "nosection"
          THEN /\ Raise("KeyError")
               /\ UNCHANGED <<config, config_file>>
               /\ last' = [cb |-> "on_language_changed", end |-> "raised"]
          ELSE /\ NoRaise
               /\ config' = code
               /\ config_file' = code
               /\ last' = [cb |-> "on_language_changed", end |-> "done"]
  /\ calls' = <<>>
  /\ UNCHANGED <<token, video_path, file_button, subtitle_list, selected,
                 download_button, filter_edit, status_label, written, searchNo>>

\* the user edits the filter field, which is shown; filter_subtitles
filter_subtitles ==
  /\ running
  /\ UNCHANGED hvars
  /\ filter_edit.visible
  /\ \E text \in FilterInputs :
       /\ text # filter_edit.text
       /\ filter_edit' = [filter_edit EXCEPT !.text = text]
       /\ subtitle_list' = Filtered(subtitle_list, text)
  /\ calls' = <<>>
  /\ last' = [cb |-> "filter_subtitles", end |-> "done"]
  /\ UNCHANGED <<running, unhandled, token, video_path, file_button, config,
                 config_file, lang_combo, selected, download_button,
                 status_label, written, searchNo>>

\* the user selects a shown item, or deselects; on_selection_changed
on_selection_changed ==
  /\ running
  /\ UNCHANGED hvars
  /\ \E i \in 0..Len(subtitle_list) :
       /\ i # selected
       /\ i # 0 => ~subtitle_list[i].hidden
       /\ selected' = i
       /\ download_button' = (i # 0)
  /\ calls' = <<>>
  /\ last' = [cb |-> "on_selection_changed", end |-> "done"]
  /\ UNCHANGED <<running, unhandled, token, video_path, file_button, config,
                 config_file, lang_combo, subtitle_list, filter_edit,
                 status_label, written, searchNo>>

\* login() without the early return of a held token
LoginOutcomes_always(tok) == LogInResponses

\* the values self.token may hold after login(); "raise" when LogIn raises
LoginOutcomes(tok) == IF Truthy(tok) THEN {tok} ELSE LogInResponses

\* the remote calls login() makes
LoginCalls(tok) == IF Truthy(tok) THEN <<>> ELSE <<Call("LogIn", None, <<>>)>>

\* the list left as it is
ClearList_keep(list) == list

\* the list after subtitle_list.clear()
ClearList(list) == <<>>

\* the text criterion left out when there is a fingerprint
SearchParams_either(h, query, lang) ==
  IF Truthy(h.hash)
  THEN <<[moviehash |-> h.hash, moviebytesize |-> ToString(h.size),
          sublanguageid |-> lang]>>
  ELSE <<[query |-> query, sublanguageid |-> lang]>>

\* the criteria of the search request, for the result of compute_hash
SearchParams(h, query, lang) ==
  (IF Truthy(h.hash)
   THEN <<[moviehash |-> h.hash, moviebytesize |-> ToString(h.size),
           sublanguageid |-> lang]>>
   ELSE <<>>)
    \o <<[query |-> query, sublanguageid |-> lang]>>

\* the items made of the entries of a response
NewItems(subs, n) ==
  [i \in 1..Len(subs) |->
     [text |-> subs[i].SubFileName, id |-> subs[i].IDSubtitleFile,
      hidden |-> FALSE, search |-> n]]

on_search ==
  /\ running
  /\ UNCHANGED hvars
  /\ searchNo < MaxSearches
  /\ searchNo' = searchNo + 1
  /\ UNCHANGED <<video_path, file_button, config, config_file, lang_combo,
                 written>>
  /\ IF ~PathTruthy(video_path)
     THEN /\ status_label' = "Select a video."
          /\ calls' = <<>>
          /\ last' = [cb |-> "on_search", end |-> "no_file"]
          /\ NoRaise
          /\ UNCHANGED <<token, subtitle_list, selected, download_button,
                         filter_edit>>
     ELSE \E tok \in LoginOutcomes(token) :
       LET loginCalls == LoginCalls(token)
           cleared == ClearList(subtitle_list)
       IN IF tok = "raise"
          THEN /\ Raise("ProtocolError")
               /\ calls' = loginCalls
               /\ last' = [cb |-> "on_search", end |-> "raised"]
               /\ UNCHANGED <<token, subtitle_list, selected, download_button,
                              filter_edit, status_label>>
          ELSE /\ token' = tok
               /\ IF ~Truthy(tok)
                  THEN /\ status_label' = "Login failed."
                       /\ calls' = loginCalls
                       /\ last' = [cb |-> "on_search", end |-> "login_failed"]
                       /\ NoRaise
                       /\ UNCHANGED <<subtitle_list, selected, download_button,
                                      filter_edit>>
                  ELSE /\ selected' = 0
                       /\ download_button' =
                            IF selected # 0 THEN FALSE ELSE download_button
                       /\ IF ~isfile(video_path)
                          THEN /\ Raise("FileNotFoundError")
                               /\ subtitle_list' = cleared
                               /\ filter_edit' = [text |-> <<>>, visible |-> FALSE]
                               /\ status_label' = "Searching..."
                               /\ calls' = loginCalls
                               /\ last' = [cb |-> "on_search", end |-> "raised"]
                          ELSE \E resp \in SearchResponses :
                            LET h == VideoHash[video_path]
                                params ==
                                  SearchParams(h, Query(video_path), lang_combo)
                                sent == loginCalls
                                          \o <<Call("SearchSubtitles", tok, params)>>
                                subs == DataOrEmpty(resp)
                            IN /\ calls' = sent
                               /\ IF resp.kind = "raise"
                                  THEN /\ Raise("ProtocolError")
                                       /\ subtitle_list' = cleared
                                       /\ filter_edit' =
                                            [text |-> <<>>, visible |-> FALSE]
                                       /\ status_label' = "Searching..."
                                       /\ last' =
                                            [cb |-> "on_search", end |-> "raised"]
                                  ELSE IF subs = <<>>
                                  THEN /\ NoRaise
                                       /\ subtitle_list' = cleared
                                       /\ filter_edit' =
                                            [text |-> <<>>, visible |-> FALSE]
                                       /\ status_label' = "No subtitles found."
                                       /\ last' =
                                            [cb |-> "on_search", end |-> "no_subtitles"]
                                  ELSE /\ NoRaise
                                       /\ subtitle_list' =
                                            cleared \o NewItems(subs, searchNo + 1)
                                       /\ filter_edit' =
                                            [text |-> <<>>, visible |-> TRUE]
                                       /\ status_label' =
                                            ToString(Len(subs)) \o " subtitle(s) found."
                                       /\ last' = [cb |-> "on_search", end |-> "found"]

out_path(p) == <<dirname(p), splitext0(p), <<".", "s", "r", "t">>>>

\* out_path + '.gz'
gz_path(p) == <<out_path(p)[1], out_path(p)[2], out_path(p)[3] \o <<".", "g", "z">>>>

\* the files fs with the file at path p holding content c
WriteFile(fs, p, c) ==
  [q \in DOMAIN fs \cup {p} |-> IF q = p THEN c ELSE fs[q]]

\* the files fs without the file at path p
RemoveFile(fs, p) == [q \in DOMAIN fs \ {p} |-> fs[q]]

on_download ==
  /\ running
  /\ UNCHANGED hvars
  /\ download_button
  /\ UNCHANGED <<token, video_path, file_button, config, config_file,
                 lang_combo, subtitle_list, selected, download_button,
                 filter_edit, searchNo>>
  /\ IF selected = 0
     THEN /\ calls' = <<>>
          /\ last' = [cb |-> "on_download", end |-> "no_item"]
          /\ NoRaise
          /\ UNCHANGED <<status_label, written>>
     ELSE \E resp \in DownloadResponses :
       LET sub_id == subtitle_list[selected].id
           data == DataOrEmpty(resp)
       IN /\ calls' = <<Call("DownloadSubtitles", token, <<sub_id>>)>>
          /\ IF resp.kind = "raise"
             THEN /\ Raise("ProtocolError")
                  /\ last' = [cb |-> "on_download", end |-> "raised"]
                  /\ UNCHANGED <<status_label, written>>
             ELSE IF data = <<>>
             THEN /\ NoRaise
                  /\ status_label' = "Error downloading subtitle."
                  /\ last' = [cb |-> "on_download", end |-> "no_data"]
                  /\ UNCHANGED written
             ELSE LET dec == b64decode(data[1].data)
                      unz == gunzip(dec.blob)
                      withGz == WriteFile(written, gz_path(video_path), dec.blob)
                      withOut == WriteFile(withGz, out_path(video_path), unz.out)
                  IN IF ~dec.ok
                     THEN /\ Raise("binascii.Error")
                          /\ last' = [cb |-> "on_download", end |-> "raised"]
                          /\ UNCHANGED <<status_label, written>>
                     ELSE IF unz.exc # "none"
                     THEN /\ Raise(unz.exc)
                          /\ written' = withOut
                          /\ last' = [cb |-> "on_download", end |-> "raised"]
                          /\ UNCHANGED status_label
                     ELSE /\ NoRaise
                          /\ written' = RemoveFile(withOut, gz_path(video_path))
                          /\ status_label' = "Subtitle downloaded!"
                          /\ last' = [cb |-> "on_download", end |-> "downloaded"]

Next ==
  \/ choose_video
  \/ on_language_changed
  \/ filter_subtitles
  \/ on_selection_changed
  \/ on_search
  \/ on_download

Spec == Init /\ [][Next]_vars

----------------------------------------------------------------------------
(* The fingerprint function applied to files that are rewritten in place *)

HashInit ==
  /\ hfile \in HashFiles
  /\ hres = NotRun
  /\ hprev = NoFile
  /\ hprevres = NotRun
  /\ running = TRUE
  /\ unhandled = "none"
  /\ token = None
  /\ video_path = NoPath
  /\ file_button = ChooseAVideo
  /\ config = "pob"
  /\ config_file = "pob"
  /\ lang_combo = "pob"
  /\ subtitle_list = <<>>
  /\ selected = 0
  /\ download_button = FALSE
  /\ filter_edit = [text |-> <<>>, visible |-> FALSE]
  /\ status_label = ""
  /\ written = <<>>
  /\ calls = <<>>
  /\ last = [cb |-> "init", end |-> "done"]
  /\ searchNo = 0

HashRun ==
  /\ hres = NotRun
  /\ hres' = HashOf[hfile]
  /\ UNCHANGED <<hfile, hprev, hprevres, gvars>>

HashRewrite ==
  /\ hres # NotRun
  /\ \E g \in HashFiles :
       /\ g.size = hfile.size
       /\ g # hfile
       /\ hfile' = g
  /\ hprev' = hfile
  /\ hprevres' = hres
  /\ hres' = NotRun
  /\ UNCHANGED gvars

HashNext == HashRun \/ HashRewrite

SpecHash == HashInit /\ [][HashNext]_vars

----------------------------------------------------------------------------
(* Properties of compute_hash *)

HashRan == hres # NotRun

BothRan == hres # NotRun /\ hprevres # NotRun

RECURSIVE SumOver(_, _, _)
\* the sum, over the offsets o of S, of what the byte at o adds to the j-th
\* 16-bit digit of its block beyond the fill byte
SumOver(S, f, j) ==
  IF S = {} THEN 0
  ELSE LET o == CHOOSE x \in S : TRUE
           i == IF o < 65536 THEN o ELSE o - (f.size - 65536) + 65536
           p == i % 8
           w == IF p % 2 = 0 THEN 1 ELSE 256
           t == IF (p \div 2) + 1 = j THEN (f.ov[o] - f.fill) * w ELSE 0
       IN t + SumOver(S \ {o}, f, j)

\* offsets of f inside one of the two sampled windows
InWindows(f, o) == (0 <= o /\ o < 65536) \/ (f.size - 65536 <= o /\ o < f.size)

\* the sum, over the 16384 sampled blocks, of the j-th 16-bit digit of the block
DigitTotal(f, j) ==
  16384 * 257 * f.fill + SumOver({o \in DOMAIN f.ov : InWindows(f, o)}, f, j)

\* (size + sum of the sampled blocks) mod 2^64, as hexadecimal digits from
\* the most significant
ExpectedDigits(f) ==
  LET t1 == (f.size % 65536) + DigitTotal(f, 1)
      t2 == ((f.size \div 65536) % 65536) + DigitTotal(f, 2) + (t1 \div 65536)
      t3 == DigitTotal(f, 3) + (t2 \div 65536)
      t4 == DigitTotal(f, 4) + (t3 \div 65536)
      d == <<t4 % 65536, t3 % 65536, t2 % 65536, t1 % 65536>>
  IN [k \in 1..16 |->
        LET q == d[((k - 1) \div 4) + 1]
            r == (k - 1) % 4
        IN IF r = 0 THEN q \div 4096
           ELSE IF r = 1 THEN (q \div 256) % 16
           ELSE IF r = 2 THEN (q \div 16) % 16
           ELSE q % 16]

HexChar(n) ==
  CASE n = 0 -> "0" [] n = 1 -> "1" [] n = 2 -> "2" [] n = 3 -> "3"
    [] n = 4 -> "4" [] n = 5 -> "5" [] n = 6 -> "6" [] n = 7 -> "7"
    [] n = 8 -> "8" [] n = 9 -> "9" [] n = 10 -> "a" [] n = 11 -> "b"
    [] n = 12 -> "c" [] n = 13 -> "d" [] n = 14 -> "e" [] n = 15 -> "f"

RECURSIVE Render(_, _)
Render(ds, k) == IF k > Len(ds) THEN "" ELSE HexChar(ds[k]) \o Render(ds, k + 1)

ZeroFile == [size |-> 131072, fill |-> 0, ov |-> <<>>]

\* C1: for a file of at least 131072 bytes compute_hash returns the file's
\* size and the 16 lowercase hexadecimal digits of (size + sum of the
\* little-endian 8-byte blocks of the first and the last 65536 bytes) mod
\* 2^64; 131072 zero bytes give 0000000000020000.
C1_Fingerprint ==
  (HashRan /\ hfile.size >= 131072) =>
     /\ hres.size = hfile.size
     /\ Len(hres.hash) = 16
     /\ hres.hash = Render(ExpectedDigits(hfile), 1)
     /\ (hfile = ZeroFile => hres.hash = "0000000000020000")

\* a file whose every sampled block is 2^64 - 1, bar one byte, has been hashed
C1_Witness ==
  /\ HashRan
  /\ hfile.size = 200001
  /\ hfile.fill = 255
  /\ hfile.ov # <<>>
  /\ hres.hash = Render(ExpectedDigits(hfile), 1)

\* C2: for a file of fewer than 131072 bytes compute_hash returns no
\* fingerprint and the file's size, and reads nothing of the file; a file of
\* exactly 131072 bytes does get a fingerprint.
C2_TooSmall ==
  HashRan =>
     /\ hfile.size < 131072 =>
          (hres.hash = None /\ hres.size = hfile.size /\ hres.reads = <<>>)
     /\ hfile.size = 131072 => (hres.hash # None /\ hres.size = 131072)

C2_Witness == HashRan /\ hfile.size = 131071 /\ hres.hash = None

\* the bytes lo .. hi-1 of f and g are the same
SameBytes(f, g, lo, hi) ==
  IF f.fill = g.fill
  THEN \A o \in DOMAIN f.ov \cup DOMAIN g.ov :
         (lo <= o /\ o < hi) => ByteAt(f, o) = ByteAt(g, o)
  ELSE \A o \in lo .. (hi - 1) : ByteAt(f, o) = ByteAt(g, o)

AgreeOnWindows(f, g) ==
  /\ f.size = g.size
  /\ SameBytes(f, g, 0, 65536)
  /\ SameBytes(f, g, f.size - 65536, f.size)

\* C3: two files of the same size >= 131072 with the same first 65536 and
\* the same last 65536 bytes have the same fingerprint.
C3_MiddleIgnored ==
  (BothRan /\ hfile.size >= 131072 /\ AgreeOnWindows(hprev, hfile)) =>
     hres.hash = hprevres.hash

\* two hashed files that differ, and only between the windows
C3_Witness ==
  /\ BothRan
  /\ hfile.size >= 131072
  /\ hfile # hprev
  /\ AgreeOnWindows(hprev, hfile)
  /\ hres.hash = hprevres.hash

\* the offsets at which f and g, of one size and one fill byte, differ
DiffOffsets(f, g) ==
  {o \in DOMAIN f.ov \cup DOMAIN g.ov : ByteAt(f, o) # ByteAt(g, o)}

OneWindowByteChanged(f, g) ==
  /\ f.size = g.size
  /\ f.fill = g.fill
  /\ Cardinality(DiffOffsets(f, g)) = 1
  /\ \A o \in DiffOffsets(f, g) : InWindows(f, o)

\* C4: changing one byte of the first or of the last 65536 bytes of a file
\* of at least 131072 bytes changes the fingerprint.
C4_WindowByteMatters ==
  (BothRan /\ hfile.size >= 131072 /\ OneWindowByteChanged(hprev, hfile)) =>
     hres.hash # hprevres.hash

\* the last byte of the first window was changed between two hashes
C4_Witness ==
  /\ BothRan
  /\ hfile.size >= 131072
  /\ OneWindowByteChanged(hprev, hfile)
  /\ DiffOffsets(hprev, hfile) = {65535}
  /\ hres.hash # hprevres.hash

----------------------------------------------------------------------------
(* Properties of the widget *)

SearchCalls == {i \in 1..Len(calls) : calls[i].op = "SearchSubtitles"}

DecodeErrors == {"binascii.Error", "BadGzipFile", "EOFError"}

\* the last callback met one of the four error situations
ErrorSituation ==
  \/ last.end \in {"no_file", "login_failed", "no_subtitles", "no_data"}
  \/ (last.cb = "on_download" /\ last.end = "raised" /\ unhandled \in DecodeErrors)

ErrorMessages ==
  {"Select a video.", "Login failed.", "No subtitles found.",
   "Error downloading subtitle."}

\* C5: each of the four error situations (no file selected, no session
\* token, no candidates, a download without data or with a payload that
\* cannot be decoded or decompressed) ends with a message in the status
\* label, with no remote call repeated, and with the program still running.
C5_ErrorsReported ==
  ErrorSituation =>
     /\ running
     /\ unhandled = "none"
     /\ status_label \in ErrorMessages
     /\ \A i, j \in 1..Len(calls) : i # j => calls[i].op # calls[j].op

\* C6: every search request holds the text criterion, last; it holds the
\* fingerprint and byte-size criterion before it exactly when the selected
\* file has at least 131072 bytes.
C6_SearchCriteria ==
  \A i \in SearchCalls :
     LET params == calls[i].arg
         size == Disk[video_path].size
     IN /\ Len(params) >= 1
        /\ "query" \in DOMAIN params[Len(params)]
        /\ \A k \in 1..(Len(params) - 1) : "query" \notin DOMAIN params[k]
        /\ (size >= 131072) <=>
             (/\ Len(params) = 2
              /\ "moviehash" \in DOMAIN params[1]
              /\ Len(params[1].moviehash) = 16
              /\ params[1].moviebytesize = ToString(size))
        /\ (size < 131072) => Len(params) = 1

\* a search was sent for the file of exactly 131072 bytes, with both criteria
C6_Witness ==
  /\ video_path = PEdge
  /\ SearchCalls # {}
  /\ \A i \in SearchCalls :
        /\ Len(calls[i].arg) = 2
        /\ calls[i].arg[1].moviehash = "0000000000020000"
        /\ "query" \in DOMAIN calls[i].arg[2]

IsArtifact(p) == p[3] = <<".", "s", "r", "t", ".", "g", "z">>

\* C7: when a download step has ended, with success or with a failure after
\* the artifact was written, no '<base name>.srt.gz' is left, and on success
\* the decompressed subtitle is at '<directory>/<base name>.srt'.
C7_ArtifactRemoved ==
  /\ \A p \in DOMAIN written : ~IsArtifact(p)
  /\ (last.cb = "on_download" /\ last.end = "downloaded") =>
        /\ out_path(video_path) \in DOMAIN written
        /\ written[out_path(video_path)] = "1 hello"

\* C8: once an on_search invocation has ended the list holds only entries of
\* that invocation's response, none when it found nothing or failed; no
\* entry of an earlier search is ever in the list.
C8_CandidatesDiscarded ==
  /\ \A i \in 1..Len(subtitle_list) : subtitle_list[i].search = searchNo
  /\ (last.cb = "on_search" /\ last.end # "found") => subtitle_list = <<>>
  /\ (last.cb = "on_search" /\ last.end = "found") => subtitle_list # <<>>

\* a search that found nothing ended after a download, which needed an item
\* of an earlier search
C8_Witness ==
  /\ last.cb = "on_search"
  /\ last.end = "no_subtitles"
  /\ searchNo >= 2
  /\ written # <<>>
  /\ subtitle_list = <<>>

\* C9: the persisted code is created as 'pob' when there is none, follows
\* every change of the selection and is changed by nothing else, so that the
\* persisted code is the language of the next search in every state.
C9_PersistedIsUsed ==
  /\ config_file = lang_combo
  /\ last.cb = "on_language_changed" => running

TokenInv ==
  /\ subtitle_list # <<>> => (Truthy(token) /\ PathTruthy(video_path))
  /\ download_button => subtitle_list # <<>>
  /\ \A i \in 1..Len(calls) :
        calls[i].op \in {"SearchSubtitles", "DownloadSubtitles"} =>
           Truthy(calls[i].token)

TokenStep ==
  Truthy(token) =>
     /\ token' = token
     /\ \A i \in 1..Len(calls') : calls'[i].op # "LogIn"

\* C10: a non-empty candidate list implies a held token and a set video
\* path; a held token is never cleared or replaced, authenticate is not
\* called again, and search and fetch are never called without a token.
C10_TokenHeld == []TokenInv /\ [][TokenStep]_vars

\* a fetch was issued, with the token, after a second search
C10_Witness ==
  /\ last.cb = "on_download"
  /\ searchNo >= 2
  /\ Len(calls) = 1
  /\ calls[1].op = "DownloadSubtitles"
  /\ calls[1].token = token
  /\ Truthy(token)

====
